---- MODULE Spec2Model ----
(***************************************************************************)
(* Model of the Ruten partner-API signing proxy (src/app.py).              *)
(*                                                                         *)
(* A Python str is a sequence of text pieces.  Everything that takes part  *)
(* in a URL, a query string, a timestamp or a sort is split into           *)
(* one-character pieces, so that sorting, URL-encoding and concatenation   *)
(* are computed character by character.  A fixed message literal of the    *)
(* source (several are written in Chinese there) is one piece, glossed in  *)
(* ASCII.  None is the one-piece sequence <<"None">>, which no str equals. *)
(***************************************************************************)
EXTENDS Integers, Sequences, FiniteSets, TLC

VARIABLES API_KEY, SECRET_KEY, SALT_KEY, now, pc, request, sent, outcome, response

vars == <<API_KEY, SECRET_KEY, SALT_KEY, now, pc, request, sent, outcome, response>>

-----------------------------------------------------------------------------
(* Bounds of the model *)

MaxArgs == 3
MinTime == 99
MaxTime == 100

-----------------------------------------------------------------------------
(* Python values *)

None == <<"None">>

\* bool(v) of a str-or-None value: None and '' are falsy
Truthy(v) == v # None /\ v # <<>>

\* the printable ASCII characters, in code point order from 32 (space) to 126 (~);
\* code point 96, the grave accent, is spelled GRAVE (the lexer rejects it in a string)
AsciiChars ==
  <<" ", "!", "\"", "#", "$", "%", "&", "'", "(", ")", "*", "+", ",", "-", ".", "/",
    "0", "1", "2", "3", "4", "5", "6", "7", "8", "9", ":", ";", "<", "=", ">", "?",
    "@", "A", "B", "C", "D", "E", "F", "G", "H", "I", "J", "K", "L", "M", "N", "O",
    "P", "Q", "R", "S", "T", "U", "V", "W", "X", "Y", "Z", "[", "\\", "]", "^", "_",
    "GRAVE", "a", "b", "c", "d", "e", "f", "g", "h", "i", "j", "k", "l", "m", "n", "o",
    "p", "q", "r", "s", "t", "u", "v", "w", "x", "y", "z", "{", "|", "}", "~">>

\* the code point of each character
CodePoints ==
  [c \in {AsciiChars[i] : i \in 1..Len(AsciiChars)} |->
     31 + (CHOOSE i \in 1..Len(AsciiChars) : AsciiChars[i] = c)]

\* ord(c)
Ord(c) == CodePoints[c]

Digits == <<"0", "1", "2", "3", "4", "5", "6", "7", "8", "9">>

HexDigits == <<"0", "1", "2", "3", "4", "5", "6", "7", "8", "9", "A", "B", "C", "D", "E", "F">>

\* str(n) of a non-negative int
RECURSIVE IntToStr(_)
IntToStr(n) == IF n < 10 THEN <<Digits[n + 1]>>
               ELSE IntToStr(n \div 10) \o <<Digits[(n % 10) + 1]>>

\* s < t on str: code point by code point, a proper prefix first
RECURSIVE StrLess(_, _)
StrLess(s, t) ==
  IF t = <<>> THEN FALSE
  ELSE IF s = <<>> THEN TRUE
  ELSE IF Ord(Head(s)) # Ord(Head(t)) THEN Ord(Head(s)) < Ord(Head(t))
  ELSE StrLess(Tail(s), Tail(t))

\* (k1, v1) < (k2, v2) on tuples of str
ItemLess(a, b) == StrLess(a[1], b[1]) \/ (a[1] = b[1] /\ StrLess(a[2], b[2]))

\* a dict is the sequence of its (key, value) items in insertion order
RECURSIVE InsertSorted(_, _)
InsertSorted(item, items) ==
  IF items = <<>> THEN <<item>>
  ELSE IF ItemLess(item, Head(items)) THEN <<item>> \o items
  ELSE <<Head(items)>> \o InsertSorted(item, Tail(items))

\* dict(params.items()), the items left in insertion order
Sorted_InsertionOrder(items) == items

\* dict(sorted(params.items()))
RECURSIVE Sorted(_)
Sorted(items) ==
  IF items = <<>> THEN <<>>
  ELSE InsertSorted(items[Len(items)], Sorted(SubSeq(items, 1, Len(items) - 1)))

DictKeys(d) == {d[i][1] : i \in 1..Len(d)}

DictGet(d, k) == IF k \in DictKeys(d)
                 THEN d[CHOOSE i \in 1..Len(d) : d[i][1] = k][2]
                 ELSE None

\* characters urllib never escapes: letters, digits and _ . - ~
Unreserved(c) ==
  \/ Ord(c) \in 48..57
  \/ Ord(c) \in 65..90
  \/ Ord(c) \in 97..122
  \/ c \in {"_", ".", "-", "~"}

\* urllib.parse.quote_plus of one character
QuoteChar(c) ==
  IF Unreserved(c) THEN <<c>>
  ELSE IF c = " " THEN <<"+">>
  ELSE <<"%", HexDigits[(Ord(c) \div 16) + 1], HexDigits[(Ord(c) % 16) + 1]>>

RECURSIVE QuotePlus(_)
QuotePlus(s) == IF s = <<>> THEN <<>> ELSE QuoteChar(Head(s)) \o QuotePlus(Tail(s))

\* urllib.parse.urlencode of a dict: quote_plus(k) = quote_plus(v), joined with &
RECURSIVE urlencode(_)
urlencode(d) ==
  IF d = <<>> THEN <<>>
  ELSE LET first == QuotePlus(d[1][1]) \o <<"=">> \o QuotePlus(d[1][2])
       IN  IF Len(d) = 1 THEN first ELSE first \o <<"&">> \o urlencode(Tail(d))

\* hmac.new(key, msg, sha256).hexdigest(): the digest is kept symbolic, as the
\* pair it is a function of
HmacSha256Hex(key, msg) == [alg |-> "HMAC-SHA256", key |-> key, msg |-> msg]

-----------------------------------------------------------------------------
(* Constants of the program *)

BASE_URL == <<"h", "t", "t", "p", "s", ":", "/", "/", "p", "a", "r", "t", "n", "e", "r", ".", "r", "u", "t", "e", "n", ".", "c", "o", "m", ".", "t", "w">>

PRODUCT_LIST == <<"/", "a", "p", "i", "/", "v", "1", "/", "p", "r", "o", "d", "u", "c", "t", "/", "l", "i", "s", "t">>

ENDPOINT_KEY == <<"e", "n", "d", "p", "o", "i", "n", "t">>

STATUS_KEY == <<"s", "t", "a", "t", "u", "s">>

STATUS_ALL == <<"a", "l", "l">>

OFFSET_KEY == <<"o", "f", "f", "s", "e", "t">>

LIMIT_KEY == <<"l", "i", "m", "i", "t">>

\* the message literals of the source, each one piece
MSG_NO_CREDENTIALS == <<"[server has no Ruten API credentials configured]">>

MSG_NO_ENDPOINT == <<"[error: target 'endpoint' parameter not provided]">>

MSG_UNPARSABLE == <<"[Ruten API returned an error that cannot be parsed]">>

MSG_PROXY_PREFIX == <<"[request failed]: ">>

MSG_VERIFY_PREFIX == <<"[credentials invalid or request failed]: ">>

MSG_VERIFY_OK == <<"[credentials valid! communication with the Ruten API succeeded.]">>

-----------------------------------------------------------------------------
(* JSON values and HTTP responses *)

\* a JSON object is the set of its (name, value) members; true and false are
\* the pieces of their literals
JsonObject(members) == [kind |-> "object", members |-> members]

JsonArray == [kind |-> "array", members |-> {}]

\* a body that is no JSON text
NotJson == [kind |-> "invalid", members |-> {}]

\* the body '' of the OPTIONS answers
EmptyText == [kind |-> "text", members |-> {}]

JSON_TRUE == <<"true">>

JSON_FALSE == <<"false">>

HasMember(obj, name) == \E m \in obj.members : m[1] = name

Member(obj, name) == (CHOOSE m \in obj.members : m[1] = name)[2]

\* obj.get(name, default) of a parsed JSON object
JsonGet(obj, name, default) == IF HasMember(obj, name) THEN Member(obj, name) ELSE default

\* what a view returns: flask answers 200 when the view gives no status
FlaskResponse(status_code, body) == [status_code |-> status_code, body |-> body]

NoResponse == [status_code |-> 0, body |-> EmptyText]

-----------------------------------------------------------------------------
(* _make_ruten_request *)

\* a check of the API key alone
CredentialsSet_ApiKeyOnly == Truthy(API_KEY)

\* all([API_KEY, SECRET_KEY, SALT_KEY])
CredentialsSet == Truthy(API_KEY) /\ Truthy(SECRET_KEY) /\ Truthy(SALT_KEY)

\* urlencode(dict(sorted(params.items())))
QueryString(params) == urlencode(Sorted(params))

\* f"{BASE_URL}{endpoint}?{query_string}"
FullUrl(endpoint, params) == BASE_URL \o endpoint \o <<"?">> \o QueryString(params)

\* str(int(time.time())), t the clock's reading in whole seconds
Timestamp(t) == IntToStr(t)

\* f"{full_url}{SALT_KEY}{timestamp}"
SignString_UrlFirst(salt, full_url, timestamp) == full_url \o salt \o timestamp

\* f"{SALT_KEY}{full_url}{timestamp}"
SignString(salt, full_url, timestamp) == salt \o full_url \o timestamp

\* the headers dict
Headers(timestamp, signature) ==
  [User_Agent |-> <<"Ruten-Proxy-App/1.0">>,
   X_RT_Key |-> API_KEY,
   X_RT_Timestamp |-> timestamp,
   X_RT_Authorization |-> signature]

\* requests.get(full_url, headers=headers, timeout=20) as it leaves the process
\* when the clock reads t
UpstreamCall(endpoint, params, t) ==
  LET full_url == FullUrl(endpoint, params)
      timestamp == Timestamp(t)
      sign_string == SignString(SALT_KEY, full_url, timestamp)
      signature == HmacSha256Hex(SECRET_KEY, sign_string)
  IN  [method |-> "GET", url |-> full_url, headers |-> Headers(timestamp, signature),
       timeout |-> 20]

\* an exception: its class, str(e) and, for an HTTPError, e.response
Exception(type, str, status_code, body) ==
  [raised |-> TRUE, type |-> type, str |-> str,
   status_code |-> status_code, body |-> body, value |-> NotJson]

\* a value returned without an exception
Returned(value) ==
  [raised |-> FALSE, type |-> "", str |-> <<>>,
   status_code |-> 0, body |-> NotJson, value |-> value]

\* raise ValueError(...)
CredentialsError == Exception("ValueError", MSG_NO_CREDENTIALS, 0, NotJson)

\* what requests.get can end in: an exception of the transport, or a response
\* with a status code and a body
TransportFailure(type, str) ==
  [kind |-> "raised", type |-> type, str |-> str, status_code |-> 0, body |-> NotJson]

UpstreamResponse(status_code, body) ==
  [kind |-> "response", type |-> "", str |-> <<>>, status_code |-> status_code, body |-> body]

NoOutcome == [kind |-> "none", type |-> "", str |-> <<>>, status_code |-> 0, body |-> NotJson]

\* str(e) of the HTTPError raise_for_status raises
HTTPErrorStr(status_code, url) ==
  IntToStr(status_code)
    \o (IF status_code < 500 THEN <<" Client Error for url: ">> ELSE <<" Server Error for url: ">>)
    \o url

\* response.raise_for_status() raises for 400 <= status_code < 600
IsHTTPError(status_code) == 400 <= status_code /\ status_code < 600

\* the rest of _make_ruten_request once requests.get has ended in o:
\* the transport's exception, raise_for_status(), response.json()
ForwardResult(o, url) ==
  IF o.kind = "raised" THEN Exception(o.type, o.str, 0, NotJson)
  ELSE IF IsHTTPError(o.status_code)
       THEN Exception("HTTPError", HTTPErrorStr(o.status_code, url), o.status_code, o.body)
  ELSE IF o.body = NotJson
       THEN Exception("JSONDecodeError", <<"Expecting value: line 1 column 1 (char 0)">>, 0, NotJson)
  ELSE Returned(o.body)

\* the except blocks' message: str(e), or for an HTTPError whose body parses
\* as an object, error_details.get('error_msg', ...); a body that does not
\* parse, or parses as something without .get, leaves str(e) (bare except)
ErrorMessage(e) ==
  IF e.type = "HTTPError" /\ e.body.kind = "object"
  THEN JsonGet(e.body, "error_msg", MSG_UNPARSABLE)
  ELSE e.str

-----------------------------------------------------------------------------
(* ruten_proxy *)

\* a check for an absent endpoint only: endpoint is None
MissingEndpoint_NoneOnly(endpoint) == endpoint = None

\* not endpoint
MissingEndpoint(endpoint) == ~Truthy(endpoint)

\* {k: v for k, v in request.args.items() if k != 'endpoint'}
ForwardedParams(args) == SelectSeq(args, LAMBDA item : item[1] # ENDPOINT_KEY)

\* params['status'] = 'all' in place of params.setdefault('status', 'all')
DefaultParams_Overwrite(endpoint, params) ==
  IF endpoint = PRODUCT_LIST
  THEN [i \in 1..Len(params) |->
          IF params[i][1] = STATUS_KEY THEN <<STATUS_KEY, STATUS_ALL>> ELSE params[i]]
       \o (IF STATUS_KEY \in DictKeys(params) THEN <<>> ELSE <<<<STATUS_KEY, STATUS_ALL>>>>)
  ELSE params

\* if endpoint == '/api/v1/product/list': params.setdefault('status', 'all')
DefaultParams(endpoint, params) ==
  IF endpoint = PRODUCT_LIST /\ STATUS_KEY \notin DictKeys(params)
  THEN Append(params, <<STATUS_KEY, STATUS_ALL>>)
  ELSE params

\* an except block that answers 500 whatever the exception
ProxyErrorStatus_Always500(e) == 500

\* status_code of the except block of ruten_proxy
ProxyErrorStatus(e) == IF e.type = "HTTPError" THEN e.status_code ELSE 500

\* the except block of ruten_proxy
ruten_proxy_except(e) ==
  FlaskResponse(ProxyErrorStatus(e),
                JsonObject({<<"message", MSG_PROXY_PREFIX \o ErrorMessage(e)>>}))

\* return jsonify(ruten_response)
ruten_proxy_success(value) == FlaskResponse(200, value)

-----------------------------------------------------------------------------
(* verify_credentials *)

\* {'status': 'all', 'offset': 1, 'limit': 1}; urlencode takes str() of the ints
VerifyParams ==
  <<<<STATUS_KEY, STATUS_ALL>>, <<OFFSET_KEY, IntToStr(1)>>, <<LIMIT_KEY, IntToStr(1)>>>>

\* the except block of ruten_proxy in the place of that of verify_credentials
verify_except_AsProxy(e) ==
  FlaskResponse(ProxyErrorStatus(e),
                JsonObject({<<"message", MSG_VERIFY_PREFIX \o ErrorMessage(e)>>,
                            <<"valid", JSON_FALSE>>}))

\* the except block of verify_credentials
verify_except(e) ==
  FlaskResponse(401,
                JsonObject({<<"message", MSG_VERIFY_PREFIX \o ErrorMessage(e)>>,
                            <<"valid", JSON_FALSE>>}))

\* return jsonify({"message": ..., "valid": True})
verify_success ==
  FlaskResponse(200, JsonObject({<<"message", MSG_VERIFY_OK>>, <<"valid", JSON_TRUE>>}))

-----------------------------------------------------------------------------
(* The environment: process configuration, inbound requests, the upstream *)

\* os.getenv of a variable: unset, set to '', or set
EnvValues(value) == {None, <<>>, value}

ORDER_PATH == <<"/", "a", "p", "i", "/", "v", "1", "/", "o", "r", "d", "e", "r", "/", "l", "i", "s", "t">>

EXTRA_KEY == <<"k", "&">>

ArgKeys == {ENDPOINT_KEY, STATUS_KEY, OFFSET_KEY, EXTRA_KEY}

ArgValues(k) ==
  IF k = ENDPOINT_KEY THEN {<<>>, PRODUCT_LIST, ORDER_PATH}
  ELSE IF k = STATUS_KEY THEN {<<>>, <<"a", "c", "t", "i", "v", "e">>}
  ELSE IF k = OFFSET_KEY THEN {<<"1">>}
  ELSE {<<"a", " ", "=", "b">>}

\* request.args as items() gives it: one (key, value) per key, in arrival order
RECURSIVE ArgsOfLen(_)
ArgsOfLen(n) ==
  IF n = 0 THEN {<<>>}
  ELSE UNION {{Append(a, <<k, v>>) : v \in ArgValues(k)} :
                <<a, k>> \in {x \in ArgsOfLen(n - 1) \X ArgKeys : x[2] \notin DictKeys(x[1])}}

AllArgs == UNION {ArgsOfLen(n) : n \in 0..MaxArgs}

Routes == {"/api/ruten", "/api/verify"}

Methods == {"GET", "OPTIONS"}

UpstreamStatuses == {200, 201, 304, 404, 503}

UpstreamBodies ==
  {NotJson, JsonArray,
   JsonObject({<<"error_msg", <<"n", "o", "t", " ", "f", "o", "u", "n", "d">>>>}),
   JsonObject({<<"data", <<"o", "k">>>>})}

UpstreamOutcomes ==
  {TransportFailure("ReadTimeout", <<"[read timed out (read timeout=20)]">>),
   TransportFailure("ConnectionError", <<"[connection refused]">>)}
  \cup {UpstreamResponse(c, b) : c \in UpstreamStatuses, b \in UpstreamBodies}

NoRequest == [route |-> "", method |-> "", args |-> <<>>]

-----------------------------------------------------------------------------
(* The state machine *)

Init ==
  /\ API_KEY \in EnvValues(<<"A", "K">>)
  /\ SECRET_KEY \in EnvValues(<<"S", "K">>)
  /\ SALT_KEY \in EnvValues(<<"S", "1">>)
  /\ now = MinTime
  /\ pc = "idle"
  /\ request = NoRequest
  /\ sent = <<>>
  /\ outcome = NoOutcome
  /\ response = NoResponse

\* the clock advances
Tick ==
  /\ now < MaxTime
  /\ now' = now + 1
  /\ UNCHANGED <<API_KEY, SECRET_KEY, SALT_KEY, pc, request, sent, outcome, response>>

\* flask dispatches an inbound request to its view
Receive(route, method, args) ==
  /\ pc = "idle"
  /\ request' = [route |-> route, method |-> method,
                 args |-> IF route = "/api/ruten" THEN args ELSE <<>>]
  /\ pc' = "received"
  /\ sent' = <<>>
  /\ outcome' = NoOutcome
  /\ response' = NoResponse
  /\ UNCHANGED <<API_KEY, SECRET_KEY, SALT_KEY, now>>

\* flask writes the view's answer to the client; nothing of the request is kept
Respond ==
  /\ pc = "done"
  /\ pc' = "idle"
  /\ request' = NoRequest
  /\ sent' = <<>>
  /\ outcome' = NoOutcome
  /\ response' = NoResponse
  /\ UNCHANGED <<API_KEY, SECRET_KEY, SALT_KEY, now>>

\* a view that runs again after a failure of the transport
AfterOutcome_Retry(o) == IF o.kind = "raised" THEN "received" ELSE "done"

\* where a view stands once requests.get has ended
AfterOutcome(o) == "done"

\* a view answers without calling the upstream
Answer(r) ==
  /\ response' = r
  /\ pc' = "done"
  /\ UNCHANGED <<API_KEY, SECRET_KEY, SALT_KEY, now, request, sent, outcome>>

\* a view reaches requests.get inside _make_ruten_request
Call(endpoint, params) ==
  /\ sent' = Append(sent, UpstreamCall(endpoint, params, now))
  /\ pc' = "waiting"
  /\ UNCHANGED <<API_KEY, SECRET_KEY, SALT_KEY, now, request, outcome, response>>

\* ruten_proxy, up to its answer or to requests.get
ruten_proxy ==
  /\ pc = "received"
  /\ request.route = "/api/ruten"
  /\ LET endpoint == DictGet(request.args, ENDPOINT_KEY)
         params == DefaultParams(endpoint, ForwardedParams(request.args))
     IN  IF request.method = "OPTIONS" THEN Answer(FlaskResponse(200, EmptyText))
         ELSE IF MissingEndpoint(endpoint)
              THEN Answer(FlaskResponse(400, JsonObject({<<"message", MSG_NO_ENDPOINT>>})))
         ELSE IF ~CredentialsSet THEN Answer(ruten_proxy_except(CredentialsError))
         ELSE Call(endpoint, params)

\* ruten_proxy, from the end of requests.get to its answer
ruten_proxy_return(o) ==
  /\ pc = "waiting"
  /\ request.route = "/api/ruten"
  /\ outcome' = o
  /\ LET result == ForwardResult(o, sent[Len(sent)].url)
     IN  response' = IF result.raised THEN ruten_proxy_except(result)
                     ELSE ruten_proxy_success(result.value)
  /\ pc' = AfterOutcome(o)
  /\ UNCHANGED <<API_KEY, SECRET_KEY, SALT_KEY, now, request, sent>>

\* verify_credentials, up to its answer or to requests.get
verify_credentials ==
  /\ pc = "received"
  /\ request.route = "/api/verify"
  /\ IF request.method = "OPTIONS" THEN Answer(FlaskResponse(200, EmptyText))
     ELSE IF ~CredentialsSet THEN Answer(verify_except(CredentialsError))
     ELSE Call(PRODUCT_LIST, VerifyParams)

\* verify_credentials, from the end of requests.get to its answer
verify_credentials_return(o) ==
  /\ pc = "waiting"
  /\ request.route = "/api/verify"
  /\ outcome' = o
  /\ LET result == ForwardResult(o, sent[Len(sent)].url)
     IN  response' = IF result.raised THEN verify_except(result) ELSE verify_success
  /\ pc' = AfterOutcome(o)
  /\ UNCHANGED <<API_KEY, SECRET_KEY, SALT_KEY, now, request, sent>>

Next ==
  \/ Tick
  \/ \E route \in Routes, method \in Methods, args \in AllArgs : Receive(route, method, args)
  \/ ruten_proxy
  \/ \E o \in UpstreamOutcomes : ruten_proxy_return(o)
  \/ verify_credentials
  \/ \E o \in UpstreamOutcomes : verify_credentials_return(o)
  \/ Respond

Spec == Init /\ [][Next]_vars

-----------------------------------------------------------------------------
(* Vocabulary of the properties *)

ProxyGet == request.route = "/api/ruten" /\ request.method = "GET"

VerifyGet == request.route = "/api/verify" /\ request.method = "GET"

\* the inbound 'endpoint' query parameter, None when absent
InboundEndpoint == DictGet(request.args, ENDPOINT_KEY)

EndpointPresent == InboundEndpoint # None /\ InboundEndpoint # <<>>

AllCredentialsPresent ==
  \A c \in {API_KEY, SECRET_KEY, SALT_KEY} : c # None /\ c # <<>>

\* the answer is a JSON object with a non-empty 'message'
HasMessage(r) ==
  /\ r.body.kind = "object"
  /\ HasMember(r.body, "message")
  /\ Member(r.body, "message") # <<>>

\* sub occurs in s
Contains(s, sub) ==
  \E i \in 1..(Len(s) - Len(sub) + 1) : SubSeq(s, i, i + Len(sub) - 1) = sub

IsPrefix(p, s) == Len(p) <= Len(s) /\ SubSeq(s, 1, Len(p)) = p

\* s.split(sep) for a one-character sep, '' giving no segment
RECURSIVE Split(_, _)
Split(s, sep) ==
  IF s = <<>> THEN <<>>
  ELSE IF \E i \in 1..Len(s) : s[i] = sep
       THEN LET i == CHOOSE j \in 1..Len(s) : s[j] = sep /\ \A h \in 1..(j - 1) : s[h] # sep
            IN  <<SubSeq(s, 1, i - 1)>> \o Split(SubSeq(s, i + 1, Len(s)), sep)
  ELSE <<s>>

\* the query string of the URL a call went to, for the endpoint it was made for
QueryOf(call, endpoint) ==
  SubSeq(call.url, Len(BASE_URL) + Len(endpoint) + 2, Len(call.url))

\* key=value as it stands in a query string
Encoded(item) == QuotePlus(item[1]) \o <<"=">> \o QuotePlus(item[2])

Items(d) == {d[i] : i \in 1..Len(d)}

UpstreamAnswered == outcome.kind = "response"

UpstreamFailedInTransport == outcome.kind = "raised"

-----------------------------------------------------------------------------
(* C1 *)

\* C1: a GET to the proxy route whose 'endpoint' is absent or empty is answered
\* 400 with a JSON body holding a non-empty 'message', and no upstream call is
\* made for it, whatever the other parameters and the credentials.
C1_MissingEndpoint400 ==
  (ProxyGet /\ ~EndpointPresent) =>
     /\ sent = <<>>
     /\ pc # "waiting"
     /\ pc = "done" => (response.status_code = 400 /\ HasMessage(response))

\* the endpoint is present but empty, other parameters are given, the
\* credentials are set, and the request has been answered
C1_Witness ==
  /\ ProxyGet /\ pc = "done"
  /\ InboundEndpoint = <<>>
  /\ Len(request.args) > 1
  /\ AllCredentialsPresent
  /\ response.status_code = 400

-----------------------------------------------------------------------------
(* C2 *)

\* C2: a proxy request with a non-empty endpoint, made while any one of the API
\* key, secret key or salt key is missing or empty, is answered 500, and no
\* upstream call is made for it: the check precedes the network I/O of every call.
C2_MissingCredentials500 ==
  (ProxyGet /\ EndpointPresent /\ ~AllCredentialsPresent) =>
     /\ sent = <<>>
     /\ pc # "waiting"
     /\ pc = "done" => response.status_code = 500

\* exactly one of the three, the salt key, is unset, and the request has been answered
C2_Witness ==
  /\ ProxyGet /\ EndpointPresent /\ pc = "done"
  /\ API_KEY # None /\ API_KEY # <<>>
  /\ SECRET_KEY # None /\ SECRET_KEY # <<>>
  /\ SALT_KEY = None
  /\ response.status_code = 500

-----------------------------------------------------------------------------
(* C3 *)

\* C3: a proxy request whose upstream call fails in transport (timeout,
\* DNS failure, connection refused or reset) is answered 503 with a JSON body
\* holding a 'message'.
C3_TransportFailure503 ==
  (ProxyGet /\ pc = "done" /\ UpstreamFailedInTransport) =>
     (response.status_code = 503 /\ HasMessage(response))

-----------------------------------------------------------------------------
(* C4 *)

\* the upstream's error_msg, when its body is a JSON object that has one
UpstreamHasErrorMsg == outcome.body.kind = "object" /\ HasMember(outcome.body, "error_msg")

\* the answer carries the upstream's status, and the upstream's error_msg in its message
PassesErrorThrough ==
  /\ response.status_code = outcome.status_code
  /\ UpstreamHasErrorMsg =>
       (HasMessage(response)
        /\ Contains(Member(response.body, "message"), Member(outcome.body, "error_msg")))

\* C4 as claimed: a proxy request whose upstream call returns a non-2xx status is
\* answered with exactly that status, its message containing the upstream's
\* error_msg when the upstream body is a JSON object that has one.
C4_Non2xxPassedThrough ==
  (ProxyGet /\ pc = "done" /\ UpstreamAnswered /\ outcome.status_code \notin 200..299) =>
     PassesErrorThrough

\* C4 as amended: a proxy request whose upstream call returns a 4xx or 5xx status
\* is answered with exactly that status, its message containing the upstream's
\* error_msg when the upstream body is a JSON object that has one.
C4_HttpErrorPassedThrough ==
  (ProxyGet /\ pc = "done" /\ UpstreamAnswered /\ outcome.status_code \in 400..599) =>
     PassesErrorThrough

\* the upstream answered 404 with an error_msg, and the request has been answered
C4_Witness ==
  /\ ProxyGet /\ pc = "done" /\ UpstreamAnswered
  /\ outcome.status_code = 404
  /\ UpstreamHasErrorMsg
  /\ response.status_code = 404
  /\ Contains(Member(response.body, "message"), Member(outcome.body, "error_msg"))

-----------------------------------------------------------------------------
(* C5 *)

\* C5: a proxy request whose upstream call returns a 2xx status with a body that
\* parses as JSON is answered with that body and with the upstream's own status
\* code, for every 2xx code.
C5_SuccessKeepsStatus ==
  (ProxyGet /\ pc = "done" /\ UpstreamAnswered
     /\ outcome.status_code \in 200..299 /\ outcome.body # NotJson) =>
     (response.body = outcome.body /\ response.status_code = outcome.status_code)

-----------------------------------------------------------------------------
(* C6 *)

\* C6: while one inbound proxy or verify request is handled, at most one upstream
\* call is made; exactly one has been made by the time a GET with its endpoint
\* present (the verify route names its own) is answered with all three
\* credentials set; and once the call has ended, in success, HTTP error, network
\* error or timeout, the view has answered and no second call follows.
C6_AtMostOneAttempt ==
  /\ Len(sent) <= 1
  /\ (pc = "done" /\ AllCredentialsPresent
        /\ ((ProxyGet /\ EndpointPresent) \/ VerifyGet)) => Len(sent) = 1
  /\ outcome # NoOutcome => (pc = "done" /\ Len(sent) = 1)
  /\ pc = "waiting" => (Len(sent) = 1 /\ outcome = NoOutcome)

\* the one call of a proxy request timed out, and the request has been answered
C6_Witness ==
  /\ ProxyGet /\ pc = "done"
  /\ outcome.kind = "raised" /\ outcome.type = "ReadTimeout"
  /\ Len(sent) = 1

-----------------------------------------------------------------------------
(* C7 *)

\* the inbound (key, value) pairs other than the reserved 'endpoint'
InboundItems == {item \in Items(request.args) : item[1] # ENDPOINT_KEY}

InboundHasStatus == \E item \in InboundItems : item[1] = STATUS_KEY

\* the segments key=value of the query string a proxy call was sent with
SentSegments == Split(QueryOf(sent[1], InboundEndpoint), "&")

SegmentsOfKey(k) ==
  {SentSegments[i] : i \in {j \in 1..Len(SentSegments) :
                              IsPrefix(QuotePlus(k) \o <<"=">>, SentSegments[j])}}

\* C7: the query string of a proxy call holds status=all when the endpoint is
\* /api/v1/product/list and no 'status' came in; holds the inbound 'status' value,
\* and no other, when one came in; holds no 'status' for another endpoint that
\* came without one; never holds the reserved 'endpoint' key; and holds every
\* other inbound pair as it came, and nothing else.
C7_DefaultStatusPolicy ==
  (ProxyGet /\ Len(sent) = 1) =>
     /\ IsPrefix(BASE_URL \o InboundEndpoint \o <<"?">>, sent[1].url)
     /\ (InboundEndpoint = PRODUCT_LIST /\ ~InboundHasStatus) =>
          SegmentsOfKey(STATUS_KEY) = {Encoded(<<STATUS_KEY, STATUS_ALL>>)}
     /\ InboundHasStatus =>
          SegmentsOfKey(STATUS_KEY) = {Encoded(<<STATUS_KEY, DictGet(request.args, STATUS_KEY)>>)}
     /\ (InboundEndpoint # PRODUCT_LIST /\ ~InboundHasStatus) =>
          SegmentsOfKey(STATUS_KEY) = {}
     /\ SegmentsOfKey(ENDPOINT_KEY) = {}
     /\ \A item \in InboundItems : \E i \in 1..Len(SentSegments) : SentSegments[i] = Encoded(item)
     /\ Len(SentSegments) =
          Cardinality(InboundItems)
            + (IF InboundEndpoint = PRODUCT_LIST /\ ~InboundHasStatus THEN 1 ELSE 0)

\* a product-list request that came with another parameter and without 'status'
\* was sent upstream with status=all
C7_Witness ==
  /\ ProxyGet /\ Len(sent) = 1
  /\ InboundEndpoint = PRODUCT_LIST
  /\ ~InboundHasStatus
  /\ InboundItems # {}
  /\ SegmentsOfKey(STATUS_KEY) = {Encoded(<<STATUS_KEY, STATUS_ALL>>)}

-----------------------------------------------------------------------------
(* C8 *)

\* the arrival orders of the inbound parameters
Reorderings(args) ==
  {[i \in 1..Len(args) |-> args[f[i]]] : f \in Permutations(1..Len(args))}

\* the pairs a proxy call is to carry
ExpectedItems ==
  InboundItems \cup (IF InboundEndpoint = PRODUCT_LIST /\ ~InboundHasStatus
                     THEN {<<STATUS_KEY, STATUS_ALL>>} ELSE {})

\* the place of a pair among the pairs, by ascending key
Rank(item) == 1 + Cardinality({other \in ExpectedItems : StrLess(other[1], item[1])})

\* C8: the canonical query string lists the pairs in ascending key order, so that
\* the same pairs arriving in any other order give the same query string and the
\* same fullUrl = BASE_URL + endpoint + "?" + query.
C8_CanonicalQueryString ==
  (ProxyGet /\ Len(sent) = 1) =>
     /\ \A item \in ExpectedItems : SentSegments[Rank(item)] = Encoded(item)
     /\ \A q \in Reorderings(request.args) :
          LET params == DefaultParams(InboundEndpoint, ForwardedParams(q))
          IN  /\ QueryString(params) = QueryOf(sent[1], InboundEndpoint)
              /\ FullUrl(InboundEndpoint, params) = sent[1].url

\* 'status' arrived before 'offset', and the call went out with offset first
C8_Witness ==
  /\ ProxyGet /\ Len(sent) = 1
  /\ \E i, j \in 1..Len(request.args) :
        i < j /\ request.args[i][1] = STATUS_KEY /\ request.args[j][1] = OFFSET_KEY
  /\ SentSegments[1] = Encoded(<<OFFSET_KEY, DictGet(request.args, OFFSET_KEY)>>)
  /\ Len(SentSegments) = 2

-----------------------------------------------------------------------------
(* C9 *)

\* int(s) of a decimal string
RECURSIVE StrToInt(_)
StrToInt(s) ==
  IF s = <<>> THEN 0
  ELSE 10 * StrToInt(SubSeq(s, 1, Len(s) - 1)) + (Ord(s[Len(s)]) - 48)

\* the call carries the raw API key, and a signature made with SECRET_KEY over
\* SALT_KEY, the URL it goes to, the empty body and the timestamp it carries
SignedAsRequired(call) ==
  /\ call.headers.X_RT_Key = API_KEY
  /\ call.headers.X_RT_Authorization.key = SECRET_KEY
  /\ call.headers.X_RT_Authorization.msg =
       SALT_KEY \o call.url \o <<>> \o call.headers.X_RT_Timestamp

\* the call that leaves in this step carries the clock's reading of this step
TimestampTakenAfresh ==
  Len(sent') > Len(sent) => StrToInt(sent'[Len(sent')].headers.X_RT_Timestamp) = now

\* C9: every upstream call is signed over SALT_KEY + fullUrl + "" + timestamp in
\* that order, fullUrl being the URL the call goes to and timestamp the string in
\* X-RT-Timestamp; X-RT-Key is the raw API key and the signature is made with
\* SECRET_KEY; and the timestamp is the clock's reading at the call, never an
\* earlier one.
C9_StringToSign ==
  /\ [](\A i \in 1..Len(sent) : SignedAsRequired(sent[i]))
  /\ [][TimestampTakenAfresh]_vars

\* a call is in flight that was signed after the clock had advanced
C9_Witness ==
  /\ pc = "waiting" /\ Len(sent) = 1
  /\ SignedAsRequired(sent[1])
  /\ StrToInt(sent[1].headers.X_RT_Timestamp) > MinTime
  /\ StrToInt(sent[1].headers.X_RT_Timestamp) = now

-----------------------------------------------------------------------------
(* C10 *)

VerifyRejected ==
  /\ response.status_code = 401
  /\ HasMessage(response)
  /\ HasMember(response.body, "valid")
  /\ Member(response.body, "valid") = JSON_FALSE

VerifyAccepted ==
  /\ response.status_code = 200
  /\ response.body.kind = "object"
  /\ HasMember(response.body, "valid")
  /\ Member(response.body, "valid") = JSON_TRUE

\* C10: the verify route makes its one call to the listing endpoint and answers
\* 200 with valid=true when the upstream answers 2xx with a JSON body; it answers
\* 401 with valid=false and a message when the upstream answers 4xx or 5xx, when
\* the transport fails, when the body of a success does not parse, and when a
\* credential is missing, in which case no call is made.
C10_VerifyOutcome ==
  VerifyGet =>
     /\ Len(sent) <= 1
     /\ \A i \in 1..Len(sent) : IsPrefix(BASE_URL \o PRODUCT_LIST \o <<"?">>, sent[i].url)
     /\ ~AllCredentialsPresent => sent = <<>>
     /\ pc = "done" =>
          /\ VerifyAccepted \/ VerifyRejected
          /\ ~AllCredentialsPresent => VerifyRejected
          /\ UpstreamFailedInTransport => VerifyRejected
          /\ (UpstreamAnswered /\ outcome.status_code \in 400..599) => VerifyRejected
          /\ (UpstreamAnswered /\ outcome.body = NotJson) => VerifyRejected
          /\ (UpstreamAnswered /\ outcome.status_code \in 200..299 /\ outcome.body # NotJson) =>
               VerifyAccepted

\* the verify route has answered 401 without a call, the secret key being empty
C10_Witness ==
  /\ VerifyGet /\ pc = "done"
  /\ SECRET_KEY = <<>>
  /\ sent = <<>>
  /\ VerifyRejected

====
